---------------------------- MODULE Spec2Model ----------------------------
(***************************************************************************)
(* A model of sqlalchemy_boolean_search.py: the pyparsing grammar and its  *)
(* parse actions (Condition, FxnCondition, BoolNot, BoolAnd, BoolOr), the  *)
(* module-level bookkeeping (params, uniqueparams, functions) that         *)
(* parse_boolean_search rebinds, and Condition.filter with its helpers.    *)
(*                                                                         *)
(* Conventions.  A Python string is a sequence of one-character strings.   *)
(* The search expression handed to parse_boolean_search is modelled as the *)
(* sequence of its lexemes (the string is the lexemes joined by one        *)
(* blank); every lexeme of the model's inputs is a maximal match of the    *)
(* grammar element that reads it.  dict.keys() returns a list, as in the   *)
(* Python 2 the module was written for (line 129 calls .count on it).      *)
(* pyparsing's operatorPrecedence is modelled as its 2.x source builds it: *)
(* per level  FollowedBy(lookahead, run without parse actions) + Group.    *)
(***************************************************************************)
EXTENDS Integers, Sequences, FiniteSets, TLC

VARIABLES
    boolean_search,  \* call -> the lexemes of the expression it was given
    pc,              \* call -> "idle" | "parsing" | "returned" | "raised"
    done,            \* call -> number of parse actions already executed
    params,          \* module global: reference to a dict (index in dicts)
    uniqueparams,    \* module global: reference to a list (index in lists)
    functions,       \* module global: reference to a list (index in lists)
    dicts,           \* the dict objects ever created, by reference
    lists,           \* the list objects ever created, by reference
    bindname,        \* call -> (Condition object -> its bindname)
    expression,      \* call -> what the call returned or raised
    leaf,            \* the Condition that filter() is called on
    DataModelClass,  \* the argument of filter(): one owner or a list
    outcome          \* what filter() returned or raised

vars == <<boolean_search, pc, done, params, uniqueparams, functions, dicts,
          lists, bindname, expression, leaf, DataModelClass, outcome>>

-----------------------------------------------------------------------------
(* Characters and strings *)

Max(a, b) == IF a >= b THEN a ELSE b

\* The letters and digits of pp.alphas / pp.nums that occur in the inputs.
LowerCase == {"a", "b", "d", "f", "n", "o", "r", "s", "t", "u", "x", "y"}
UpperCase == {"A", "D", "N", "O", "R", "T"}
alphas == LowerCase \cup UpperCase
nums == {"0", "1", "2", "3", "4", "5"}
alphanums == alphas \cup nums

\* str.lower() of one character, and of a string
LowerChar(c) ==
    CASE c = "A" -> "a" [] c = "D" -> "d" [] c = "N" -> "n"
      [] c = "O" -> "o" [] c = "R" -> "r" [] c = "T" -> "t"
      [] OTHER -> c

Lower(str) == [i \in 1..Len(str) |-> LowerChar(str[i])]

\* the index of the first occurrence of character c in str, 0 when absent
RECURSIVE FindFrom(_, _, _)
FindFrom(str, c, i) ==
    IF i > Len(str) THEN 0
    ELSE IF str[i] = c THEN i ELSE FindFrom(str, c, i + 1)

Find(str, c) == FindFrom(str, c, 1)

\* the decimal digits of a natural number, as '{0}'.format(n) renders it
RECURSIVE Digits(_)
Digits(n) ==
    LET d == <<"0", "1", "2", "3", "4", "5", "6", "7", "8", "9">>[(n % 10) + 1]
    IN  IF n < 10 THEN <<d>> ELSE Digits(n \div 10) \o <<d>>

-----------------------------------------------------------------------------
(* The expression elements, lines 341-347.  Each reads one lexeme. *)

LPAR == <<"(">>
RPAR == <<")">>

AllIn(tok, chars) == \A i \in 1..Len(tok) : tok[i] \in chars

\* name = pp.Word(pp.alphas + '._', pp.alphanums + '._')
name(tok) ==
    /\ Len(tok) >= 1
    /\ tok[1] \in alphas \cup {".", "_"}
    /\ AllIn(tok, alphanums \cup {".", "_"})

\* operator = pp.Regex("==|!=|<=|>=|<|>|=")
operator(tok) ==
    tok \in {<<"=", "=">>, <<"!", "=">>, <<"<", "=">>, <<">", "=">>,
             <<"<">>, <<">">>, <<"=">>}

\* pp.QuotedString('"'): a lexeme in double quotes with none inside
QuotedString(tok) ==
    /\ Len(tok) >= 3
    /\ tok[1] = "\"" /\ tok[Len(tok)] = "\""
    /\ \A i \in 2..(Len(tok) - 1) : tok[i] # "\""

\* number = pp.Regex(r"[+-]?\d+(:?\.\d*)?(:?[eE][+-]?\d+)?"), for a lexeme
\* without exponent: sign, digits, then an optional '.' or ':.' and digits
number(tok) ==
    LET body == IF Len(tok) >= 1 /\ tok[1] \in {"+", "-"} THEN Tail(tok) ELSE tok
        dot == Find(body, ".")
        int == IF dot = 0 THEN body
               ELSE IF dot >= 2 /\ body[dot - 1] = ":" THEN SubSeq(body, 1, dot - 2)
               ELSE SubSeq(body, 1, dot - 1)
        frac == IF dot = 0 THEN <<>> ELSE SubSeq(body, dot + 1, Len(body))
    IN  Len(int) >= 1 /\ AllIn(int, nums) /\ AllIn(frac, nums)

\* value = pp.Word(pp.alphanums + '-_.*') | pp.QuotedString('"') | number
value(tok) ==
    \/ Len(tok) >= 1 /\ AllIn(tok, alphanums \cup {"-", "_", ".", "*"})
    \/ QuotedString(tok)
    \/ number(tok)

\* the token a value lexeme yields: QuotedString drops the quotes
ValueToken(tok) ==
    IF Len(tok) >= 1 /\ AllIn(tok, alphanums \cup {"-", "_", ".", "*"}) THEN tok
    ELSE IF QuotedString(tok) THEN SubSeq(tok, 2, Len(tok) - 1)
    ELSE tok

\* pp.Word(pp.alphas), the function name of function_call
FunctionName(tok) == Len(tok) >= 1 /\ AllIn(tok, alphas)

\* pp.CaselessLiteral(kw) read at a lexeme
CaselessLiteral(tok, kw) == Lower(tok) = kw

KwNot == <<"n", "o", "t">>
KwAnd == <<"a", "n", "d">>
KwOr == <<"o", "r">>

-----------------------------------------------------------------------------
(* The expression element classes, lines 93-337: what each constructor     *)
(* stores.  What the constructors do to params and functions is below.     *)

None == [type |-> "None"]

\* a token of a pyparsing group that is a plain string ('and', 'or', 'not')
Str(kw) == [type |-> "str", s |-> kw]

\* Condition.__init__, lines 116-123; 'at' stands for the object's identity
Condition(data, at) ==
    LET fullname == data[1]
        dot == Find(fullname, ".")
    IN  [type |-> "Condition", at |-> at,
         fullname |-> fullname,
         basename |-> IF dot > 0 THEN SubSeq(fullname, 1, dot - 1) ELSE <<>>,
         name |-> IF dot > 0 THEN SubSeq(fullname, dot + 1, Len(fullname))
                  ELSE fullname,
         op |-> data[2],
         value |-> data[3]]

\* FxnCondition.__init__, lines 97-102
FxnCondition(data, at) ==
    [type |-> "FxnCondition", at |-> at, fxnname |-> data[1][1],
     fxncond |-> data[1][2], op |-> data[2], value |-> data[3]]

\* BoolNot.__init__, line 270
BoolNot(data) == [type |-> "BoolNot", condition |-> data[2]]

\* the loop of BoolAnd.__init__ / BoolOr.__init__ that fills self.conditions
RECURSIVE Conditions(_, _)
Conditions(data, kw) ==
    IF data = <<>> THEN <<>>
    ELSE LET c == Head(data)
             keep == /\ ~(c.type = "str" /\ c.s = kw)
                     /\ c.type # "FxnCondition"
         IN  (IF keep THEN <<c>> ELSE <<>>) \o Conditions(Tail(data), kw)

\* BoolAnd.__init__, lines 288-294
BoolAnd(data) == [type |-> "BoolAnd", conditions |-> Conditions(data, KwAnd)]

\* BoolOr.__init__, lines 316-322
BoolOr(data) == [type |-> "BoolOr", conditions |-> Conditions(data, KwOr)]

\* a parse action that ran: the constructor called and its argument
Action(class, data, obj) == [class |-> class, data |-> data, obj |-> obj]

-----------------------------------------------------------------------------
(* The grammar, lines 349-367.  A parser maps the lexemes s, a position i  *)
(* and doActions to a result: ok, the position after the match, the token  *)
(* it yields, the parse actions it ran (also those of a match that was     *)
(* later abandoned), and on failure loc, the lexeme the ParseException     *)
(* points at (Len(s)+1: the end of the string).  A parse without actions   *)
(* has no effect, so where a level has just read its first operand as      *)
(* lookahead and is itself run without actions, that result is used again. *)

Tok(s, i) == IF i >= 1 /\ i <= Len(s) THEN s[i] ELSE <<>>

Matched(pos, node, ev) ==
    [ok |-> TRUE, pos |-> pos, node |-> node, ev |-> ev, loc |-> 0]

Failed(loc, ev) ==
    [ok |-> FALSE, pos |-> loc, node |-> None, ev |-> ev, loc |-> loc]

\* Op applied to a parse result: the result is computed once and read
\* through the parameter of Op
With(r, Op(_)) == Op(r)

\* condition = pp.Group(name + operator + value), parse action Condition
condition(s, i, doActions) ==
    IF ~name(Tok(s, i)) THEN Failed(i, <<>>)
    ELSE IF ~operator(Tok(s, i + 1)) THEN Failed(i + 1, <<>>)
    ELSE IF ~value(Tok(s, i + 2)) THEN Failed(i + 2, <<>>)
    ELSE LET data == <<Tok(s, i), Tok(s, i + 1), ValueToken(Tok(s, i + 2))>>
         IN  Matched(i + 3, Condition(data, i),
                     IF doActions
                     THEN <<Action("Condition", data, Condition(data, i))>>
                     ELSE <<>>)

\* function_call = pp.Group(pp.Word(pp.alphas) + LPAR + condition + RPAR)
\* fxn_cond = pp.Group(function_call + operator + value), action FxnCondition
fxn_cond(s, i, doActions) ==
    IF ~FunctionName(Tok(s, i)) THEN Failed(i, <<>>)
    ELSE IF Tok(s, i + 1) # LPAR THEN Failed(i + 1, <<>>)
    ELSE With(condition(s, i + 2, doActions), LAMBDA c :
         IF ~c.ok THEN Failed(c.loc, c.ev)
         ELSE IF Tok(s, c.pos) # RPAR THEN Failed(c.pos, c.ev)
         ELSE IF ~operator(Tok(s, c.pos + 1)) THEN Failed(c.pos + 1, c.ev)
         ELSE IF ~value(Tok(s, c.pos + 2)) THEN Failed(c.pos + 2, c.ev)
         ELSE LET data == <<<<Tok(s, i), c.node>>, Tok(s, c.pos + 1),
                            ValueToken(Tok(s, c.pos + 2))>>
              IN  Matched(c.pos + 3, FxnCondition(data, i),
                          IF doActions
                          THEN c.ev \o <<Action("FxnCondition", data,
                                                FxnCondition(data, i))>>
                          ELSE <<>>))

\* wherecond = condition | fxn_cond ; whereexp <<= wherecond
whereexp(s, i, doActions) ==
    With(condition(s, i, doActions), LAMBDA c :
    IF c.ok THEN c
    ELSE With(fxn_cond(s, i, doActions), LAMBDA f :
         IF f.ok THEN f ELSE Failed(Max(c.loc, f.loc), f.ev)))

RECURSIVE NotLevel(_, _, _), AndLevel(_, _, _), OrLevel(_, _, _)
RECURSIVE AndMore(_, _, _), OrMore(_, _, _)

\* operatorPrecedence: lastExpr = baseExpr | (lpar + ret + rpar)
Operand(s, i, doActions) ==
    With(whereexp(s, i, doActions), LAMBDA b :
    IF b.ok THEN b
    ELSE IF Tok(s, i) # LPAR THEN Failed(Max(b.loc, i), b.ev)
    ELSE With(OrLevel(s, i + 1, doActions), LAMBDA r :
         IF ~r.ok THEN Failed(Max(b.loc, r.loc), b.ev \o r.ev)
         ELSE IF Tok(s, r.pos) # RPAR
              THEN Failed(Max(b.loc, r.pos), b.ev \o r.ev)
         ELSE Matched(r.pos + 1, r.node, b.ev \o r.ev)))

\* the group of a level that matched: the parse action cls on its tokens
Grouped(pos, cls, data, n, ev, doActions) ==
    Matched(pos, n, IF doActions THEN ev \o <<Action(cls, data, n)>> ELSE <<>>)

\* (pp.CaselessLiteral("not"), 1, pp.opAssoc.RIGHT, BoolNot):
\* thisExpr = FollowedBy(opExpr + thisExpr) + Group(opExpr + thisExpr)
\*          | lastExpr
NotLevel(s, i, doActions) ==
    With(IF CaselessLiteral(Tok(s, i), KwNot) THEN NotLevel(s, i + 1, FALSE)
         ELSE Failed(i, <<>>), LAMBDA ahead :
    IF ahead.ok
    THEN With(NotLevel(s, i + 1, doActions), LAMBDA r :
         With(<<Str(KwNot), r.node>>, LAMBDA data :
         Grouped(r.pos, "BoolNot", data, BoolNot(data), r.ev, doActions)))
    ELSE With(Operand(s, i, doActions), LAMBDA o :
         IF o.ok THEN o ELSE Failed(Max(ahead.loc, o.loc), o.ev)))

\* OneOrMore(opExpr + lastExpr) after the first operand of an 'and' group
AndMore(s, i, doActions) ==
    IF ~CaselessLiteral(Tok(s, i), KwAnd)
    THEN [pos |-> i, data |-> <<>>, ev |-> <<>>]
    ELSE With(NotLevel(s, i + 1, doActions), LAMBDA r :
         IF ~r.ok THEN [pos |-> i, data |-> <<>>, ev |-> r.ev]
         ELSE With(AndMore(s, r.pos, doActions), LAMBDA m :
              [pos |-> m.pos,
               data |-> <<Str(KwAnd), r.node>> \o m.data,
               ev |-> r.ev \o m.ev]))

\* (pp.CaselessLiteral("and"), 2, pp.opAssoc.LEFT, BoolAnd):
\* thisExpr = FollowedBy(lastExpr + opExpr + lastExpr)
\*            + Group(lastExpr + OneOrMore(opExpr + lastExpr))  | lastExpr
\* a is the lookahead's first operand, f the first operand as the level
\* itself reads it
AndLevel(s, i, doActions) ==
    With(NotLevel(s, i, FALSE), LAMBDA a :
    With(IF doActions THEN NotLevel(s, i, TRUE) ELSE a, LAMBDA f :
    IF /\ a.ok
       /\ CaselessLiteral(Tok(s, a.pos), KwAnd)
       /\ NotLevel(s, a.pos + 1, FALSE).ok
    THEN With(AndMore(s, f.pos, doActions), LAMBDA m :
         With(<<f.node>> \o m.data, LAMBDA data :
         Grouped(m.pos, "BoolAnd", data, BoolAnd(data), f.ev \o m.ev,
                 doActions)))
    ELSE f))

\* A faulty OrMore, to show that C1 depends on the levels: 'or' reads the
\* operands 'and' reads, so 'and' no longer groups before 'or'.
OrMoreOfNot(s, i, doActions) ==
    IF ~CaselessLiteral(Tok(s, i), KwOr)
    THEN [pos |-> i, data |-> <<>>, ev |-> <<>>]
    ELSE With(NotLevel(s, i + 1, doActions), LAMBDA r :
         IF ~r.ok THEN [pos |-> i, data |-> <<>>, ev |-> r.ev]
         ELSE With(OrMore(s, r.pos, doActions), LAMBDA m :
              [pos |-> m.pos,
               data |-> <<Str(KwOr), r.node>> \o m.data,
               ev |-> r.ev \o m.ev]))

\* OneOrMore(opExpr + lastExpr) after the first operand of an 'or' group
OrMore(s, i, doActions) ==
    IF ~CaselessLiteral(Tok(s, i), KwOr)
    THEN [pos |-> i, data |-> <<>>, ev |-> <<>>]
    ELSE With(AndLevel(s, i + 1, doActions), LAMBDA r :
         IF ~r.ok THEN [pos |-> i, data |-> <<>>, ev |-> r.ev]
         ELSE With(OrMore(s, r.pos, doActions), LAMBDA m :
              [pos |-> m.pos,
               data |-> <<Str(KwOr), r.node>> \o m.data,
               ev |-> r.ev \o m.ev]))

\* (pp.CaselessLiteral("or"), 2, pp.opAssoc.LEFT, BoolOr)
OrLevel(s, i, doActions) ==
    With(AndLevel(s, i, FALSE), LAMBDA a :
    With(IF doActions THEN AndLevel(s, i, TRUE) ELSE a, LAMBDA f :
    IF /\ a.ok
       /\ CaselessLiteral(Tok(s, a.pos), KwOr)
       /\ AndLevel(s, a.pos + 1, FALSE).ok
    THEN With(OrMore(s, f.pos, doActions), LAMBDA m :
         With(<<f.node>> \o m.data, LAMBDA data :
         Grouped(m.pos, "BoolOr", data, BoolOr(data), f.ev \o m.ev,
                 doActions)))
    ELSE f))

\* expression_parser.parseString(boolean_search): no parseAll, so the match
\* may end before the end of the string
expression_parser(s) == OrLevel(s, 1, TRUE)

\* ParseException.col for a failure at lexeme loc: one more than the number
\* of characters before it in the lexemes joined by single blanks
RECURSIVE col(_, _)
col(s, loc) ==
    IF loc <= 1 THEN 1
    ELSE IF loc = Len(s) + 1 THEN col(s, loc - 1) + Len(s[loc - 1])
    ELSE col(s, loc - 1) + Len(s[loc - 1]) + 1

-----------------------------------------------------------------------------
(* The module-level bookkeeping, lines 369-371, and what the constructors  *)
(* do to it.  A memory m holds the three global names (references) and the *)
(* objects they may refer to; a dict is a function from keys to values.    *)

EmptyDict == <<>>

Memory ==
    [params |-> params, uniqueparams |-> uniqueparams,
     functions |-> functions, dicts |-> dicts, lists |-> lists]

\* params = {} ; uniqueparams = [] ; functions = []  (lines 369-371)
ModuleMemory ==
    [params |-> 1, uniqueparams |-> 1, functions |-> 2,
     dicts |-> <<EmptyDict>>, lists |-> <<<<>>, <<>>>>]

\* A faulty Rebind, to show that C10 depends on line 381: functions keeps
\* referring to the list of the call before.
RebindTwo(m) ==
    [params |-> Len(m.dicts) + 1,
     uniqueparams |-> Len(m.lists) + 1,
     functions |-> m.functions,
     dicts |-> Append(m.dicts, EmptyDict),
     lists |-> m.lists \o <<<<>>, <<>>>>]

\* lines 378-381: the three names are bound to new, empty objects
Rebind(m) ==
    [params |-> Len(m.dicts) + 1,
     uniqueparams |-> Len(m.lists) + 1,
     functions |-> Len(m.lists) + 2,
     dicts |-> Append(m.dicts, EmptyDict),
     lists |-> m.lists \o <<<<>>, <<>>>>]

\* params.update({key: val}) on the dict the global refers to
Update(m, key, val) ==
    [m EXCEPT !.dicts[m.params] = (key :> val) @@ @]

\* key in params
InParams(m, key) == key \in DOMAIN m.dicts[m.params]

\* params.keys().count(key): the occurrences of key in the list of keys
KeysCount(m, key) ==
    Cardinality({k \in DOMAIN m.dicts[m.params] : k = key})

\* Condition.__init__, lines 125-130: the bindname the new object gets
ConditionBindname(m, c) ==
    IF ~InParams(m, c.fullname) THEN c.fullname
    ELSE c.fullname \o <<"_">> \o Digits(KeysCount(m, c.fullname))

\* Condition.__init__, lines 124-131: what it does to the globals
ConditionInit(m, c) ==
    Update([m EXCEPT !.lists[m.uniqueparams] = Append(@, c.fullname)],
           c.fullname, c.value)

\* lines 271-272, 295-296, 323-324: a Condition operand whose name is not
\* a key of params is written to params again
Reregister(m, c) ==
    IF c.type = "Condition" /\ ~InParams(m, c.name)
    THEN Update(m, c.fullname, c.value)
    ELSE m

\* BoolNot.__init__, lines 270-272
BoolNotInit(m, data) == Reregister(m, data[2])

\* BoolAnd.__init__ / BoolOr.__init__, lines 289-296 and 317-324
RECURSIVE BoolInit(_, _, _)
BoolInit(m, data, kw) ==
    IF data = <<>> THEN m
    ELSE LET c == Head(data)
             m1 == IF c.type = "str" /\ c.s = kw THEN m
                   ELSE IF c.type = "FxnCondition"
                        THEN [m EXCEPT !.lists[m.functions] = Append(@, c)]
                   ELSE Reregister(m, c)
         IN  BoolInit(m1, Tail(data), kw)

\* one parse action: the constructor runs against the globals; st.bind
\* collects the bindname of every Condition object constructed
Construct(st, a) ==
    CASE a.class = "Condition" ->
           [m |-> ConditionInit(st.m, a.obj),
            bind |-> (a.obj.at :> ConditionBindname(st.m, a.obj)) @@ st.bind]
      [] a.class = "FxnCondition" -> st
      [] a.class = "BoolNot" -> [st EXCEPT !.m = BoolNotInit(st.m, a.data)]
      [] a.class = "BoolAnd" -> [st EXCEPT !.m = BoolInit(st.m, a.data, KwAnd)]
      [] a.class = "BoolOr" -> [st EXCEPT !.m = BoolInit(st.m, a.data, KwOr)]

RECURSIVE ConstructAll(_, _)
ConstructAll(st, actions) ==
    IF actions = <<>> THEN st
    ELSE ConstructAll(Construct(st, Head(actions)), Tail(actions))

\* list(set(uniqueparams)): the order is not determined, the model keeps
\* the elements
Elements(list) == {list[i] : i \in 1..Len(list)}

NoExpression == [status |-> "none"]

\* lines 387-390: the attributes set on the parsed expression
Returned(m, r) ==
    [status |-> "returned", root |-> r.node, params |-> m.params,
     uniqueparams |-> Elements(m.lists[m.uniqueparams]),
     functions |-> m.functions]

\* line 385: BooleanSearchException("Syntax error at offset %(offset)s.")
SyntaxError(s, r) == [status |-> "raised", offset |-> col(s, r.loc)]

Store(m) ==
    /\ params' = m.params
    /\ uniqueparams' = m.uniqueparams
    /\ functions' = m.functions
    /\ dicts' = m.dicts
    /\ lists' = m.lists

-----------------------------------------------------------------------------
(* parse_boolean_search, lines 374-390 *)

Calls == DOMAIN pc

\* the whole call, run without interruption
parse_boolean_search(t) ==
    /\ pc[t] = "idle"
    /\ LET s == boolean_search[t]
           r == expression_parser(s)
           st == ConstructAll([m |-> Rebind(Memory), bind |-> <<>>], r.ev)
       IN  /\ Store(st.m)
           /\ bindname' = [bindname EXCEPT ![t] = st.bind]
           /\ done' = [done EXCEPT ![t] = Len(r.ev)]
           /\ IF r.ok
              THEN /\ expression' = [expression EXCEPT ![t] = Returned(st.m, r)]
                   /\ pc' = [pc EXCEPT ![t] = "returned"]
              ELSE /\ expression' = [expression EXCEPT ![t] = SyntaxError(s, r)]
                   /\ pc' = [pc EXCEPT ![t] = "raised"]
    /\ UNCHANGED <<boolean_search, leaf, DataModelClass, outcome>>

\* The same call in steps, for callers on separate threads: the rebinding
\* of the globals (lines 378-381) ...
Enter(t) ==
    /\ pc[t] = "idle"
    /\ Store(Rebind(Memory))
    /\ pc' = [pc EXCEPT ![t] = "parsing"]
    /\ UNCHANGED <<boolean_search, done, bindname, expression, leaf,
                   DataModelClass, outcome>>

\* ... each parse action of parseString (line 383) ...
ParseAction(t) ==
    /\ pc[t] = "parsing"
    /\ LET r == expression_parser(boolean_search[t])
       IN  /\ done[t] < Len(r.ev)
           /\ LET st == Construct([m |-> Memory, bind |-> bindname[t]],
                                  r.ev[done[t] + 1])
              IN  /\ Store(st.m)
                  /\ bindname' = [bindname EXCEPT ![t] = st.bind]
    /\ done' = [done EXCEPT ![t] = @ + 1]
    /\ UNCHANGED <<boolean_search, pc, expression, leaf, DataModelClass,
                   outcome>>

\* ... and the end of the call: lines 387-390
Return(t) ==
    /\ pc[t] = "parsing"
    /\ LET r == expression_parser(boolean_search[t])
       IN  /\ done[t] = Len(r.ev)
           /\ r.ok
           /\ expression' = [expression EXCEPT ![t] = Returned(Memory, r)]
    /\ pc' = [pc EXCEPT ![t] = "returned"]
    /\ UNCHANGED <<boolean_search, done, params, uniqueparams, functions,
                   dicts, lists, bindname, leaf, DataModelClass, outcome>>

\* or lines 384-385
Raise(t) ==
    /\ pc[t] = "parsing"
    /\ LET r == expression_parser(boolean_search[t])
       IN  /\ done[t] = Len(r.ev)
           /\ ~r.ok
           /\ expression' =
                  [expression EXCEPT ![t] = SyntaxError(boolean_search[t], r)]
    /\ pc' = [pc EXCEPT ![t] = "raised"]
    /\ UNCHANGED <<boolean_search, done, params, uniqueparams, functions,
                   dicts, lists, bindname, leaf, DataModelClass, outcome>>

-----------------------------------------------------------------------------
(* Search expressions *)

MaxItems == 4

SeqsUpTo(S, n) == UNION {[1..k -> S] : k \in 0..n}

RECURSIVE Flatten(_)
Flatten(phrases) ==
    IF phrases = <<>> THEN <<>> ELSE Head(phrases) \o Flatten(Tail(phrases))

\* the phrases expressions are put together from:  x==1   f(x==3)>4
\* x==  (a condition whose value is missing)   not  and  or  (  )
Phrases ==
    {<<<<"x">>, <<"=", "=">>, <<"1">>>>,
     <<<<"f">>, LPAR, <<"x">>, <<"=", "=">>, <<"3">>, RPAR, <<">">>, <<"4">>>>,
     <<<<"x">>, <<"=", "=">>>>,
     <<KwNot>>, <<KwAnd>>, <<KwOr>>, <<LPAR>>, <<RPAR>>}

NoLeaf == None
NoOwner == None
NoOutcome == [kind |-> "none"]

\* operands of the longer expressions:  x==1   f(x==3)>4   not x==1
\* ( x==1 or x==1 )   not ( x==1 and x==1 )
CondX == <<<<"x">>, <<"=", "=">>, <<"1">>>>
FxnF == <<<<"f">>, LPAR, <<"x">>, <<"=", "=">>, <<"3">>, RPAR, <<">">>, <<"4">>>>

ChainOperands ==
    {CondX, FxnF,
     <<KwNot>> \o CondX,
     <<LPAR>> \o CondX \o <<KwOr>> \o CondX \o <<RPAR>>,
     <<KwNot, LPAR>> \o CondX \o <<KwAnd>> \o CondX \o <<RPAR>>}

MaxOperands == 3

\* operand (and|or operand)* with up to n operands
RECURSIVE Chains(_)
Chains(n) ==
    IF n = 0 THEN {}
    ELSE ChainOperands \cup
         {c \o <<kw>> \o o : c \in Chains(n - 1),
                             kw \in {KwAnd, KwOr}, o \in ChainOperands}

Expressions ==
    {Flatten(p) : p \in SeqsUpTo(Phrases, MaxItems)} \cup Chains(MaxOperands)

\* one call of parse_boolean_search on any of Expressions, in a freshly
\* imported module
InitParse ==
    /\ boolean_search \in {[t \in {1} |-> e] : e \in Expressions}
    /\ pc = [t \in {1} |-> "idle"]
    /\ done = [t \in {1} |-> 0]
    /\ params = ModuleMemory.params
    /\ uniqueparams = ModuleMemory.uniqueparams
    /\ functions = ModuleMemory.functions
    /\ dicts = ModuleMemory.dicts
    /\ lists = ModuleMemory.lists
    /\ bindname = [t \in {1} |-> <<>>]
    /\ expression = [t \in {1} |-> NoExpression]
    /\ leaf = NoLeaf
    /\ DataModelClass = NoOwner
    /\ outcome = NoOutcome

NextParse == \E t \in Calls : parse_boolean_search(t)

SpecParse == InitParse /\ [][NextParse]_vars

-----------------------------------------------------------------------------
(* What the grammar of the expressions says, stated on the lexemes alone   *)
(* and not by running the parser.                                          *)

\* the nesting depth of parentheses in front of lexeme i, counted from lo
RECURSIVE Depth(_, _, _)
Depth(s, lo, i) ==
    IF i <= lo THEN 0
    ELSE Depth(s, lo, i - 1)
         + (IF s[i - 1] = LPAR THEN 1 ELSE IF s[i - 1] = RPAR THEN -1 ELSE 0)

\* the places in lo..hi where keyword kw stands outside every parenthesis
TopLevel(s, lo, hi, kw) ==
    {i \in lo..hi : Lower(s[i]) = kw /\ Depth(s, lo, i) = 0}

SetMin(S) == CHOOSE x \in S : \A y \in S : x <= y

\* lo..hi cut at the places of cuts
RECURSIVE Segments(_, _, _)
Segments(lo, hi, cuts) ==
    IF cuts = {} THEN <<<<lo, hi>>>>
    ELSE LET c == SetMin(cuts)
         IN  <<<<lo, c - 1>>>> \o Segments(c + 1, hi, cuts \ {c})

Ungrouped == [valid |-> FALSE, tree |-> None]

NotFxn(n) == n.type # "FxnCondition"

\* The tree of lexemes lo..hi by precedence: cut at the outermost 'or's,
\* else at the outermost 'and's, else take off a leading 'not', else a
\* pair of parentheses around the whole, else it is one condition or one
\* function condition.  The conditions of an And / Or are its operands
\* that are not function conditions.
RECURSIVE Grouping(_, _, _)
Grouping(s, lo, hi) ==
    IF lo > hi THEN Ungrouped
    ELSE
    LET ors == TopLevel(s, lo, hi, KwOr)
        ands == TopLevel(s, lo, hi, KwAnd)
        Group(type, cuts) ==
            LET segs == Segments(lo, hi, cuts)
                subs == [k \in 1..Len(segs) |->
                            Grouping(s, segs[k][1], segs[k][2])]
            IN  IF \A k \in 1..Len(subs) : subs[k].valid
                THEN [valid |-> TRUE,
                      tree |-> [type |-> type,
                                conditions |->
                                    SelectSeq([k \in 1..Len(subs) |-> subs[k].tree],
                                              NotFxn)]]
                ELSE Ungrouped
    IN  IF ors # {} THEN Group("BoolOr", ors)
        ELSE IF ands # {} THEN Group("BoolAnd", ands)
        ELSE IF Lower(s[lo]) = KwNot
        THEN LET g == Grouping(s, lo + 1, hi)
             IN  IF g.valid
                 THEN [valid |-> TRUE,
                       tree |-> [type |-> "BoolNot", condition |-> g.tree]]
                 ELSE Ungrouped
        ELSE IF /\ s[lo] = LPAR /\ s[hi] = RPAR
                /\ \A i \in (lo + 1)..hi : Depth(s, lo, i) >= 1
        THEN Grouping(s, lo + 1, hi - 1)
        ELSE IF hi = lo + 2 /\ name(s[lo]) /\ operator(s[lo + 1]) /\ value(s[hi])
        THEN [valid |-> TRUE,
              tree |-> Condition(<<s[lo], s[lo + 1], ValueToken(s[hi])>>, lo)]
        ELSE IF /\ hi = lo + 7 /\ FunctionName(s[lo]) /\ s[lo + 1] = LPAR
                /\ name(s[lo + 2]) /\ operator(s[lo + 3]) /\ value(s[lo + 4])
                /\ s[lo + 5] = RPAR /\ operator(s[lo + 6]) /\ value(s[hi])
        THEN [valid |-> TRUE,
              tree |-> FxnCondition(
                           <<<<s[lo],
                               Condition(<<s[lo + 2], s[lo + 3],
                                           ValueToken(s[lo + 4])>>, lo + 2)>>,
                             s[lo + 6], ValueToken(s[hi])>>, lo)]
        ELSE Ungrouped

\* s[lo..hi] is derived from the grammar (the spec's section 4.2):
\*   leaf     := condition | function condition
\*   not_expr := "not" not_expr | leaf | "(" or_expr ")"
\*   and_expr := not_expr ("and" not_expr)*
\*   or_expr  := and_expr ("or" and_expr)*
IsLeaf(s, lo, hi) ==
    \/ hi = lo + 2 /\ name(s[lo]) /\ operator(s[lo + 1]) /\ value(s[hi])
    \/ /\ hi = lo + 7 /\ FunctionName(s[lo]) /\ s[lo + 1] = LPAR
       /\ name(s[lo + 2]) /\ operator(s[lo + 3]) /\ value(s[lo + 4])
       /\ s[lo + 5] = RPAR /\ operator(s[lo + 6]) /\ value(s[hi])

RECURSIVE IsNotExpr(_, _, _), IsAndExpr(_, _, _), IsOrExpr(_, _, _)
IsNotExpr(s, lo, hi) ==
    /\ lo <= hi
    /\ \/ IsLeaf(s, lo, hi)
       \/ Lower(s[lo]) = KwNot /\ IsNotExpr(s, lo + 1, hi)
       \/ s[lo] = LPAR /\ s[hi] = RPAR /\ IsOrExpr(s, lo + 1, hi - 1)

IsAndExpr(s, lo, hi) ==
    \/ IsNotExpr(s, lo, hi)
    \/ \E k \in (lo + 1)..(hi - 1) :
          Lower(s[k]) = KwAnd /\ IsNotExpr(s, lo, k - 1) /\ IsAndExpr(s, k + 1, hi)

IsOrExpr(s, lo, hi) ==
    \/ IsAndExpr(s, lo, hi)
    \/ \E k \in (lo + 1)..(hi - 1) :
          Lower(s[k]) = KwOr /\ IsAndExpr(s, lo, k - 1) /\ IsOrExpr(s, k + 1, hi)

Sentence(s) == IsOrExpr(s, 1, Len(s))

\* the Condition objects that are leaves of a tree (those inside function
\* conditions are not among them)
RECURSIVE Leaves(_)
Leaves(n) ==
    CASE n.type = "Condition" -> {n.at}
      [] n.type = "BoolNot" -> Leaves(n.condition)
      [] n.type \in {"BoolAnd", "BoolOr"} ->
           UNION {Leaves(n.conditions[k]) : k \in 1..Len(n.conditions)}
      [] OTHER -> {}

Finished(t) == pc[t] \in {"returned", "raised"}

-----------------------------------------------------------------------------
(* The claims about one parse *)

\* C1: every expression that is valid by the precedence not > and > or is
\* parsed, and the tree returned is the one that precedence gives: 'not'
\* on the single operand after it, each 'and' chain grouped inside the
\* surrounding 'or', parentheses overriding both.
C1_PrecedenceTree ==
    \A t \in Calls :
        Finished(t) =>
            LET s == boolean_search[t]
                g == Grouping(s, 1, Len(s))
            IN  g.valid =>
                    /\ expression[t].status = "returned"
                    /\ expression[t].root = g.tree

\* an expression  a or b and c  without parentheses came back as
\* Or(a, And(b, c))
C1_Witness ==
    \E t \in Calls :
        /\ pc[t] = "returned"
        /\ Len(boolean_search[t]) = 11
        /\ TopLevel(boolean_search[t], 1, 11, KwOr) = {4}
        /\ TopLevel(boolean_search[t], 1, 11, KwAnd) = {8}
        /\ expression[t].root.type = "BoolOr"
        /\ Len(expression[t].root.conditions) = 2
        /\ expression[t].root.conditions[1].type = "Condition"
        /\ expression[t].root.conditions[2].type = "BoolAnd"
        /\ Len(expression[t].root.conditions[2].conditions) = 2

\* C2: within one parse no two leaf conditions carry the same bind name.
C2_BindnamesDistinct ==
    \A t \in Calls :
        pc[t] = "returned" =>
            \A a, b \in Leaves(expression[t].root) :
                a # b => bindname[t][a] # bindname[t][b]

\* C3: a tree is returned exactly when the whole input is a sentence of
\* the grammar; every other input raises the syntax error with an offset
\* into the input.
C3_TreeOnlyForSentences ==
    \A t \in Calls :
        Finished(t) =>
            LET s == boolean_search[t]
            IN  /\ (expression[t].status = "returned") <=> Sentence(s)
                /\ expression[t].status = "raised" =>
                       expression[t].offset \in 1..(col(s, Len(s) + 1))

\* C9: after a successful parse of a valid expression the functions list
\* holds every function condition of the expression, and only function
\* conditions.
C9_FunctionsComplete ==
    \A t \in Calls :
        (pc[t] = "returned" /\ Sentence(boolean_search[t])) =>
            LET s == boolean_search[t]
                fs == lists[expression[t].functions]
            IN  /\ \A k \in 1..Len(fs) : fs[k].type = "FxnCondition"
                /\ {fs[k].at : k \in 1..Len(fs)}
                       = {i \in 1..Len(s) : fxn_cond(s, i, FALSE).ok}

-----------------------------------------------------------------------------
(* Several calls of parse_boolean_search in one process *)

MaxCalls == 2
MaxThreads == 2

\* the expressions the calls are given
Searches ==
    {
    \* x == 1
     <<<<"x">>, <<"=", "=">>, <<"1">>>>,
    \* x >= 1 AND x <= 2
     <<<<"x">>, <<">", "=">>, <<"1">>, <<"A", "N", "D">>, <<"x">>,
       <<"<", "=">>, <<"2">>>>,
    \* f ( x == 3 ) > 4 and y == 5
     <<<<"f">>, <<"(">>, <<"x">>, <<"=", "=">>, <<"3">>, <<")">>, <<">">>,
       <<"4">>, <<"a", "n", "d">>, <<"y">>, <<"=", "=">>, <<"5">>>>,
    \* ( y == 2
     <<<<"(">>, <<"y">>, <<"=", "=">>, <<"2">>>>,
    \* t.x == 1 and not t.x == 2
     <<<<"t", ".", "x">>, <<"=", "=">>, <<"1">>, <<"a", "n", "d">>,
       <<"n", "o", "t">>, <<"t", ".", "x">>, <<"=", "=">>, <<"2">>>>,
    \* y = a* or f ( y != 5 ) < 3
     <<<<"y">>, <<"=">>, <<"a", "*">>, <<"o", "r">>, <<"f">>, <<"(">>,
       <<"y">>, <<"!", "=">>, <<"5">>, <<")">>, <<"<">>, <<"3">>>>,
    \* x ==
     <<<<"x">>, <<"=", "=">>>>}

InitCalls(n) ==
    /\ boolean_search \in [1..n -> Searches]
    /\ pc = [t \in 1..n |-> "idle"]
    /\ done = [t \in 1..n |-> 0]
    /\ params = ModuleMemory.params
    /\ uniqueparams = ModuleMemory.uniqueparams
    /\ functions = ModuleMemory.functions
    /\ dicts = ModuleMemory.dicts
    /\ lists = ModuleMemory.lists
    /\ bindname = [t \in 1..n |-> <<>>]
    /\ expression = [t \in 1..n |-> NoExpression]
    /\ leaf = NoLeaf
    /\ DataModelClass = NoOwner
    /\ outcome = NoOutcome

\* calls made one after another, in any order
InitSeq == InitCalls(MaxCalls)

NextSeq == \E t \in Calls : parse_boolean_search(t)

SpecSeq == InitSeq /\ [][NextSeq]_vars

\* calls made on separate threads: a thread may be switched out between
\* the rebinding of the globals, any two parse actions, and the return
InitThreads == InitCalls(MaxThreads)

NextThreads ==
    \/ \E t \in Calls : Enter(t)
    \/ \E t \in Calls : ParseAction(t)
    \/ \E t \in Calls : Return(t)
    \/ \E t \in Calls : Raise(t)

SpecThreads == InitThreads /\ [][NextThreads]_vars

\* what one call on expression s leaves behind when nothing ran before it
\* and nothing runs beside it
Alone(s) ==
    LET r == expression_parser(s)
        st == ConstructAll([m |-> Rebind(ModuleMemory), bind |-> <<>>], r.ev)
    IN  [params |-> st.m.dicts[st.m.params],
         functions |-> st.m.lists[st.m.functions],
         uniqueparams |-> Elements(st.m.lists[st.m.uniqueparams]),
         bind |-> st.bind]

\* the result of call t, as it is now, is what the call gives alone
AsAlone(t) ==
    LET a == Alone(boolean_search[t])
    IN  /\ dicts[expression[t].params] = a.params
        /\ lists[expression[t].functions] = a.functions
        /\ expression[t].uniqueparams = a.uniqueparams
        /\ bindname[t] = a.bind

\* C10: of calls made one after another, whatever ran before (a call that
\* raised part-way included) and whatever runs later, the parameters,
\* functions and bind names of every result are those its own expression
\* gives from empty bookkeeping.
C10_CallsIndependent ==
    \A t \in Calls : pc[t] = "returned" => AsAlone(t)

\* two calls returned, the first with a function condition in its list,
\* the second on the same field with another value
C10_Witness ==
    \E t, u \in Calls :
        /\ pc[t] = "returned" /\ pc[u] = "returned"
        /\ expression[t].params < expression[u].params
        /\ lists[expression[t].functions] # <<>>
        /\ \E k \in DOMAIN dicts[expression[t].params] :
              /\ k \in DOMAIN dicts[expression[u].params]
              /\ dicts[expression[t].params][k] # dicts[expression[u].params][k]

\* C4: of two calls on separate threads, each result holds the parameters,
\* function list and bind names its own expression gives alone, nothing of
\* the other call's.
C4_ThreadsIndependent ==
    \A t \in Calls :
        pc[t] = "returned" =>
            /\ AsAlone(t)
            /\ \A u \in Calls \ {t} :
                  pc[u] = "returned" =>
                      /\ expression[u].params # expression[t].params
                      /\ expression[u].functions # expression[t].functions

-----------------------------------------------------------------------------
(* Condition.filter and its helpers, lines 76-88 and 133-260.  A model     *)
(* class is its __tablename__ and its attributes by name; an attribute is  *)
(* a mapped column with its SQL type (it has .type and .ilike), or         *)
(* something else the class has under that name (it has neither).  Python  *)
(* values are tagged: [str |-> s], [int |-> n], [float |-> m / 10^e].      *)

Column(table, key, sqltype) ==
    [type |-> "Column", table |-> table, key |-> key, sqltype |-> sqltype]

Attribute(table, key) == [type |-> "attribute", table |-> table, key |-> key]

Model(tablename, attrs) ==
    [type |-> "class", tablename |-> tablename, attrs |-> attrs]

\* field.type.python_type
python_type(sqltype) ==
    CASE sqltype = "Integer" -> "int"
      [] sqltype = "Float" -> "float"
      [] sqltype = "Numeric" -> "Decimal"
      [] sqltype = "String" -> "str"
      [] sqltype = "ARRAY" -> "list"
      [] sqltype = "DateTime" -> "datetime"

\* opdict, line 67
opdict(op) ==
    CASE op = <<"<", "=">> -> "le" [] op = <<">", "=">> -> "ge"
      [] op = <<">">> -> "gt" [] op = <<"<">> -> "lt"
      [] op = <<"!", "=">> -> "ne" [] op = <<"=", "=">> -> "eq"
      [] op = <<"=">> -> "eq"

\* what a call gives: a value, or an exception with its arguments
Returns(result) == [kind |-> "returned", value |-> result]
Raises(exception, args) ==
    [kind |-> "raised", exception |-> exception, args |-> args]

\* the BooleanSearchException of lines 166-168 and 178-180
NoSuchField(table_name, field_name) ==
    Raises("BooleanSearchException",
           [template |-> "Table '%(table_name)s' does not have a field named '%(field_name)s'.",
            table_name |-> table_name, field_name |-> field_name])

\* the BooleanSearchException of lines 195-196
ExpectsFloat(field_name, received) ==
    Raises("BooleanSearchException",
           [template |-> "Field {0} expects a float value. Received value {1} instead.",
            args |-> <<field_name, received>>])

\* the BooleanSearchException of lines 202-203
ExpectsInteger(field_name, received) ==
    Raises("BooleanSearchException",
           [template |-> "Field {0} expects an integer value. Received value {1} instead.",
            args |-> <<field_name, received>>])

\* getattr(obj, nm, None); a list or a module has none of the field names
getattr(obj, nm) ==
    IF obj.type = "class" /\ nm \in DOMAIN obj.attrs THEN obj.attrs[nm]
    ELSE None

\* sub in str, for strings
Contains(str, sub) ==
    \E i \in 0..(Len(str) - Len(sub)) : SubSeq(str, i + 1, i + Len(sub)) = sub

\* get_field, lines 76-88
get_field(model, field_name, base_name) ==
    IF base_name # <<>>
    THEN IF Contains(model.tablename, base_name)
         THEN getattr(model, field_name)
         ELSE None
    ELSE getattr(model, field_name)

\* the SQL expressions the module builds
bindparam(key, val) == [sql |-> "bindparam", key |-> key, value |-> val]
func_lower(e) == [sql |-> "lower", of |-> e]
literal(str) == [sql |-> "literal", value |-> [str |-> str]]
concat(l, r) == [sql |-> "concat", left |-> l, right |-> r]
ilike(field, other) == [sql |-> "ilike", left |-> field, other |-> other]
binary(op, l, r) == [sql |-> "binary", operator |-> op, left |-> l, right |-> r]
any(field, other, op) ==
    [sql |-> "any", left |-> field, other |-> other, operator |-> op]

\* the sign and the digits of a numeric string
Unsigned(str) ==
    IF Len(str) >= 1 /\ str[1] \in {"+", "-"} THEN Tail(str) ELSE str

Sign(str) == IF Len(str) >= 1 /\ str[1] = "-" THEN -1 ELSE 1

\* the number a string of digits denotes
RECURSIVE Number(_)
Number(ds) ==
    IF ds = <<>> THEN 0
    ELSE 10 * Number(SubSeq(ds, 1, Len(ds) - 1))
         + (CHOOSE n \in 0..9 : Digits(n) = <<ds[Len(ds)]>>)

\* int(str) does not raise: an optional sign, then digits
IntAccepts(str) == Len(Unsigned(str)) >= 1 /\ AllIn(Unsigned(str), nums)

IntValue(str) == [int |-> Sign(str) * Number(Unsigned(str))]

\* the digits before and after the point of a numeric string
Whole(str) ==
    LET body == Unsigned(str)
        dot == Find(body, ".")
    IN  IF dot = 0 THEN body ELSE SubSeq(body, 1, dot - 1)

Fraction(str) ==
    LET body == Unsigned(str)
        dot == Find(body, ".")
    IN  IF dot = 0 THEN <<>> ELSE SubSeq(body, dot + 1, Len(body))

\* float(str) does not raise, for a string without exponent: an optional
\* sign, digits with at most one point, at least one digit
FloatAccepts(str) ==
    /\ Len(Whole(str)) + Len(Fraction(str)) >= 1
    /\ AllIn(Whole(str), nums) /\ AllIn(Fraction(str), nums)

\* m / 10^e in lowest terms of e
RECURSIVE Reduce(_, _)
Reduce(m, e) ==
    IF e > 0 /\ m % 10 = 0 THEN Reduce(m \div 10, e - 1)
    ELSE [mant |-> m, exp |-> e]

FloatValue(str) ==
    [float |-> Reduce(Sign(str) * Number(Whole(str) \o Fraction(str)),
                      Len(Fraction(str)))]

\* A faulty replace, to show that C5 depends on line 252: only the first
\* occurrence of old is replaced.
replaceFirst(str, old, new) ==
    [i \in 1..Len(str) |-> IF i = Find(str, old) THEN new ELSE str[i]]

\* str.replace(old, new) for one-character old and new
replace(str, old, new) ==
    [i \in 1..Len(str) |-> IF str[i] = old THEN new ELSE str[i]]

\* bindAndLowerValue, lines 184-212; an attribute that is no column has no
\* .type (line 189)
bindAndLowerValue(self, field) ==
    IF field.type # "Column" THEN Raises("AttributeError", <<"type">>)
    ELSE
    LET fieldtype == python_type(field.sqltype)
    IN  IF fieldtype \in {"float", "Decimal"}
        THEN IF FloatAccepts(self.value)
             THEN Returns(<<field,
                            bindparam(self.bindname, FloatValue(self.value))>>)
             ELSE ExpectsFloat(self.name, self.value)
        ELSE IF fieldtype = "int"
        THEN IF IntAccepts(self.value)
             THEN Returns(<<field,
                            bindparam(self.bindname, IntValue(self.value))>>)
             ELSE ExpectsInteger(self.name, self.value)
        ELSE Returns(<<func_lower(field),
                       func_lower(bindparam(self.bindname,
                                            [str |-> self.value]))>>)

\* filter_one, lines 214-260.  Line 258 reads the name boundvalue, which
\* filter_one never assigns: a NameError.
filter_one(self, model, field) ==
    IF field = None THEN Returns(None)
    ELSE
    LET bound == bindAndLowerValue(self, field)
    IN  IF bound.kind = "raised" THEN bound
        ELSE
        LET lower_field == bound.value[1]
            lower_value == bound.value[2]
        IN  IF field.sqltype = "ARRAY"
            THEN Returns(any(field, [str |-> self.value], opdict(self.op)))
            ELSE IF self.op = <<"=", "=">>
            THEN Returns(binary("__eq__", lower_field, lower_value))
            ELSE IF self.op = <<"<">>
            THEN Returns(binary("__lt__", lower_field, lower_value))
            ELSE IF self.op = <<"<", "=">>
            THEN Returns(binary("__le__", lower_field, lower_value))
            ELSE IF self.op = <<">">>
            THEN Returns(binary("__gt__", lower_field, lower_value))
            ELSE IF self.op = <<">", "=">>
            THEN Returns(binary("__ge__", lower_field, lower_value))
            ELSE IF self.op = <<"!", "=">>
            THEN Returns(binary("__ne__", lower_field, lower_value))
            ELSE IF self.op = <<"=">>
            THEN IF field.sqltype = "String"
                 THEN LET attr == getattr(model, self.name)
                      IN  IF Find(self.value, "*") > 0
                          THEN Returns(ilike(attr,
                                   bindparam(self.bindname,
                                       [str |-> replace(self.value, "*", "%")])))
                          ELSE Returns(ilike(attr,
                                   concat(concat(literal(<<"%">>),
                                                 bindparam(self.bindname,
                                                     [str |-> self.value])),
                                          literal(<<"%">>))))
                 ELSE Raises("NameError", <<"boundvalue">>)
            ELSE Returns(None)

\* the for loop of filter, lines 151-163, from models[i] on: the values of
\* field, index and model when it ends.  index counts from 1, 0 is None.
RECURSIVE Probe(_, _, _)
Probe(self, models, i) ==
    LET model == models[i]
        field == get_field(model, self.name, self.basename)
        ptype == field.type = "Column"
        ilike_ == field.type = "Column"
    IN  IF field # None /\ ptype /\ ilike_
        THEN [field |-> field, index |-> i, model |-> model]
        ELSE IF i = Len(models)
        THEN [field |-> field, index |-> 0, model |-> model]
        ELSE Probe(self, models, i + 1)

\* Condition.filter, lines 133-182.  models is the list of a list or the
\* classes of a module that have a __tablename__; None and the empty list
\* both take the else branch of line 147.  A class attribute is truthy
\* (line 175); a list or a module has no __tablename__ (line 180).
filter(self, D) ==
    LET models == IF D.type = "module" THEN D.classes
                  ELSE IF D.type = "list" THEN D.models
                  ELSE <<>>
    IN  IF models # <<>>
        THEN LET p == Probe(self, models, 1)
             IN  IF p.field = None
                 THEN NoSuchField(p.model.tablename, self.name)
                 ELSE IF p.index = 0
                 THEN Raises("TypeError", <<"list indices">>)
                 ELSE filter_one(self, models[p.index], p.field)
        ELSE LET field == get_field(D, self.name, <<>>)
             IN  IF field # None
                 THEN filter_one(self, D, field)
                 ELSE IF D.type = "class"
                 THEN NoSuchField(D.tablename, self.name)
                 ELSE Raises("AttributeError", <<"__tablename__">>)

\* the call of filter on the leaf
CallFilter ==
    /\ outcome = NoOutcome
    /\ outcome' = filter(leaf, DataModelClass)
    /\ UNCHANGED <<boolean_search, pc, done, params, uniqueparams, functions,
                   dicts, lists, bindname, expression, leaf, DataModelClass>>

-----------------------------------------------------------------------------
(* The leaves and owners filter is called with *)

MaxValueLen == 2
MaxOwners == 2

\* the characters of the raw values, all of pp.alphanums + '-_.*'
ValueChars == {"a", "A", "*", "3", "0", ".", "-"}

Values == SeqsUpTo(ValueChars, MaxValueLen) \ {<<>>}

Operators == {tok \in SeqsUpTo({"=", "!", "<", ">"}, 2) : operator(tok)}

SQLTypes == {"Integer", "Float", "Numeric", "String", "ARRAY", "DateTime"}

\* a Condition as the parser leaves it: the fields of __init__ and the
\* bindname it was given
Leaf(data, bind) ==
    LET c == Condition(data, 1)
    IN  [type |-> c.type, at |-> c.at, fullname |-> c.fullname,
         basename |-> c.basename, name |-> c.name, op |-> c.op,
         value |-> c.value, bindname |-> bind]

\* the bindnames a Condition can get: first of its name, or a repeat
Bindnames(data) ==
    LET c == Condition(data, 1)
    IN  {ConditionBindname(m, c) :
            m \in {ModuleMemory, Update(ModuleMemory, c.fullname, c.value)}}

\* a model class with the attribute x as a column of some type, as another
\* attribute, or without it
Owner(tablename, x) ==
    Model(tablename,
          IF x = "absent" THEN <<>>
          ELSE IF x = "attribute"
          THEN <<"x">> :> Attribute(tablename, <<"x">>)
          ELSE <<"x">> :> Column(tablename, <<"x">>, x))

List(models) == [type |-> "list", models |-> models]
Module(classes) == [type |-> "module", classes |-> classes]

\* every operator and value on a column of every type, alone or in a list
TypeCases ==
    {[leaf |-> Leaf(<<<<"x">>, op, v>>, b), owner |-> d] :
        op \in Operators, v \in Values,
        b \in Bindnames(<<<<"x">>, <<"=">>, <<"3">>>>),
        d \in UNION {{Owner(<<"t", "s">>, type),
                      List(<<Owner(<<"t", "s">>, type)>>)} :
                     type \in SQLTypes}}

Owners ==
    {Owner(t, x) : t \in {<<"t", "s">>, <<"u">>},
                   x \in {"absent", "attribute", "String", "Integer"}}

\* plain and dotted names against one class, lists and modules
OwnerCases ==
    {[leaf |-> Leaf(<<n, op, v>>, n), owner |-> d] :
        n \in {<<"x">>, <<"t", ".", "x">>},
        op \in {<<"=", "=">>, <<"=">>},
        v \in {<<"3">>, <<"a", "*">>},
        d \in Owners
              \cup {List(l) : l \in SeqsUpTo(Owners, MaxOwners)}
              \cup {Module(l) : l \in SeqsUpTo(Owners, MaxOwners)}}

InitCompile ==
    /\ boolean_search = <<>>
    /\ pc = <<>>
    /\ done = <<>>
    /\ params = ModuleMemory.params
    /\ uniqueparams = ModuleMemory.uniqueparams
    /\ functions = ModuleMemory.functions
    /\ dicts = ModuleMemory.dicts
    /\ lists = ModuleMemory.lists
    /\ bindname = <<>>
    /\ expression = <<>>
    /\ \E c \in TypeCases \cup OwnerCases :
          /\ leaf = c.leaf
          /\ DataModelClass = c.owner
    /\ outcome = NoOutcome

NextCompile == CallFilter

SpecCompile == InitCompile /\ [][NextCompile]_vars

-----------------------------------------------------------------------------
(* The claims about filter *)

\* the owners filter looks the leaf up in, in order (lines 137-145)
OwnersOf(D) ==
    IF D.type = "class" THEN <<D>>
    ELSE IF D.type = "list" THEN D.models
    ELSE D.classes

\* what the i-th owner has under the leaf's name: by local name and base
\* name in a list or module (line 153), by local name alone for one class
\* (line 174)
FieldIn(self, D, i) ==
    get_field(OwnersOf(D)[i], self.name,
              IF D.type = "class" THEN <<>> ELSE self.basename)

\* the owners that resolve the leaf's name to a field
Resolving(self, D) ==
    {i \in 1..Len(OwnersOf(D)) : FieldIn(self, D, i).type = "Column"}

\* the field of the first owner that resolves the name, None without one
Target(self, D) ==
    IF Resolving(self, D) = {} THEN None
    ELSE FieldIn(self, D, SetMin(Resolving(self, D)))

Called == outcome # NoOutcome

\* the string a LIKE pattern expression evaluates to
RECURSIVE Pattern(_)
Pattern(e) ==
    IF e.sql = "concat" THEN Pattern(e.left) \o Pattern(e.right)
    ELSE e.value.str

\* the bind parameters of a pattern expression
RECURSIVE Binds(_)
Binds(e) ==
    IF e.sql = "concat" THEN Binds(e.left) \cup Binds(e.right)
    ELSE IF e.sql = "bindparam" THEN {e.key}
    ELSE {}

\* C5: on a text field, '=' with no '*' in the value is ILIKE with the
\* value between two '%'; '=' with a '*' is ILIKE with the value in which
\* each '*' is '%' and every other character is kept, nothing added; '=='
\* is equality of the lowered field and the lowered bound value, no ILIKE.
C5_TextFieldMatching ==
    LET f == Target(leaf, DataModelClass)
        v == leaf.value
    IN  (Called /\ f.type = "Column" /\ f.sqltype = "String") =>
            /\ leaf.op = <<"=">> =>
                  /\ outcome.kind = "returned"
                  /\ outcome.value.sql = "ilike"
                  /\ outcome.value.left = f
                  /\ Binds(outcome.value.other) = {leaf.bindname}
                  /\ LET p == Pattern(outcome.value.other)
                     IN  IF \E i \in 1..Len(v) : v[i] = "*"
                         THEN /\ Len(p) = Len(v)
                              /\ \A i \in 1..Len(v) :
                                    p[i] = IF v[i] = "*" THEN "%" ELSE v[i]
                         ELSE p = <<"%">> \o v \o <<"%">>
            /\ leaf.op = <<"=", "=">> =>
                  outcome = Returns(binary("__eq__", func_lower(f),
                                func_lower(bindparam(leaf.bindname,
                                                     [str |-> v]))))

\* 'x = a*' on a text column of the second owner of a list gave ILIKE 'a%'
C5_Witness ==
    /\ Called
    /\ DataModelClass.type = "list"
    /\ Resolving(leaf, DataModelClass) = {2}
    /\ Target(leaf, DataModelClass).sqltype = "String"
    /\ leaf.op = <<"=">>
    /\ leaf.value = <<"a", "*">>
    /\ outcome.kind = "returned"
    /\ Pattern(outcome.value.other) = <<"a", "%">>

\* C6: on an integer, float or decimal field, a value that does not coerce
\* gives the type-mismatch error with the field and the value; a value that
\* coerces gives the comparison of the field itself with the coerced number
\* bound under the leaf's bind name.
C6_NumericCoercion ==
    LET f == Target(leaf, DataModelClass)
        v == leaf.value
        integer == f.sqltype = "Integer"
        coerces == IF integer THEN IntAccepts(v) ELSE FloatAccepts(v)
    IN  (Called /\ f.type = "Column"
            /\ f.sqltype \in {"Integer", "Float", "Numeric"}) =>
            IF coerces
            THEN /\ outcome.kind = "returned"
                 /\ outcome.value.sql = "binary"
                 /\ outcome.value.left = f
                 /\ outcome.value.right =
                        bindparam(leaf.bindname,
                                  IF integer THEN IntValue(v) ELSE FloatValue(v))
            ELSE outcome = IF integer THEN ExpectsInteger(leaf.name, v)
                           ELSE ExpectsFloat(leaf.name, v)

\* C7: '=' on a field that is neither text nor array, with a value that
\* coerces when the field is numeric, returns an equality predicate, the
\* one '==' gives for the same leaf.
C7_PlainEquality ==
    LET f == Target(leaf, DataModelClass)
        v == leaf.value
    IN  (/\ Called /\ f.type = "Column" /\ leaf.op = <<"=">>
         /\ f.sqltype \notin {"String", "ARRAY"}
         /\ f.sqltype = "Integer" => IntAccepts(v)
         /\ f.sqltype \in {"Float", "Numeric"} => FloatAccepts(v)) =>
            /\ outcome.kind = "returned"
            /\ outcome = filter([leaf EXCEPT !.op = <<"=", "=">>],
                                DataModelClass)

\* C8: filter gives what compiling against the first owner that resolves
\* the field gives; without such an owner it raises the unknown-field error
\* with the table of one of the owners and the field; nothing else.
C8_OwnerResolution ==
    LET D == DataModelClass
        r == Resolving(leaf, D)
    IN  Called =>
            IF r # {}
            THEN outcome = filter_one(leaf, OwnersOf(D)[SetMin(r)],
                                      Target(leaf, D))
            ELSE \E i \in 1..Len(OwnersOf(D)) :
                    outcome = NoSuchField(OwnersOf(D)[i].tablename, leaf.name)

=============================================================================
